---- MODULE Spec2Model ----
(***************************************************************************)
(* cargo-local-install: the freshness decision, the per-request install    *)
(* and the error propagation of run_from_strs (src/src/lib.rs), over a     *)
(* small filesystem: destination directories, `.built` markers, manifest   *)
(* (origin) modification times and published binaries.                     *)
(***************************************************************************)
EXTENDS Integers, Sequences, FiniteSets, TLC

\* ---------------------------------------------------------------- bounds
MaxSets     == 2    \* install sets of one invocation
MaxInstalls == 2    \* install requests of one invocation, all sets together
MaxRuns     == 2    \* invocations of the program, one after another
MaxTime     == MaxRuns  \* the filesystem clock runs 1..MaxTime

\* ---------------------------------------------------------------- values
NoTime == -1        \* Option<SystemTime>::None (metadata or modified() failed)
NoSrc  == 0         \* InstallSet::src == None
NoCode == -1        \* ExitStatus::code() == None (killed by a signal)
NoStatus == -2      \* no subprocess has been waited for
WaitErr == -3       \* cmd.wait() returned Err
DstBin == 0         \* the directory of `dst_bin` (--root/bin, --out-bin, "bin")

Origins == 1..MaxSets               \* the manifests (Cargo.toml) found
Dirs    == 0..MaxSets               \* DstBin, and <manifest k's directory>/bin
ExitCodes == {0, 101}               \* what `cargo install` may exit with

NoError == [text |-> "", code |-> NoCode]

\* ------------------------------------------------------------ InstallFlag
InstallFlag(flag, args) == [flag |-> flag, args |-> args]

\* byte order of the flag strings the model uses
FlagOrder == <<"--locked", "--path", "--target-dir", "--version", "-f">>
FlagRank(flag) == CHOOSE i \in 1..Len(FlagOrder) : FlagOrder[i] = flag

RECURSIVE ArgsLess(_, _)
ArgsLess(a, b) ==
    IF b = <<>> THEN FALSE
    ELSE IF a = <<>> THEN TRUE
    ELSE IF Head(a) # Head(b) THEN Head(a) < Head(b)
    ELSE ArgsLess(Tail(a), Tail(b))

\* #[derive(PartialOrd, Ord)] on InstallFlag: by flag, then by args
FlagLess(x, y) ==
    \/ FlagRank(x.flag) < FlagRank(y.flag)
    \/ x.flag = y.flag /\ ArgsLess(x.args, y.args)

RECURSIVE InsertFlag(_, _)
InsertFlag(f, s) ==
    IF s = <<>> THEN <<f>>
    ELSE IF FlagLess(f, Head(s)) THEN <<f>> \o s
    ELSE <<Head(s)>> \o InsertFlag(f, Tail(s))

\* Vec::sort (stable)
RECURSIVE SortFlags(_)
SortFlags(s) ==
    IF s = <<>> THEN <<>>
    ELSE InsertFlag(s[Len(s)], SortFlags(SubSeq(s, 1, Len(s) - 1)))

\* ------------------------------------------------------- Install, InstallSet
is_local(install) ==
    \E i \in 1..Len(install.flags) : install.flags[i].flag = "--path"

is_remote(install) == ~is_local(install)

any_local(set) == \E i \in 1..Len(set.installs) : is_local(set.installs[i])

any_remote(set) == \E i \in 1..Len(set.installs) : is_remote(set.installs[i])

\* ----------------------------------------------------------------- inputs
Kinds == {"remote", "local"}

\* a request's name: position r of set s
CrateName(s, r) == 10 * s + r

\* manifest.rs: one Install per [*.metadata.local-install] entry
ManifestInstall(kind, s, r) ==
    [name  |-> CrateName(s, r),
     flags |-> IF kind = "local"
               THEN <<InstallFlag("--path", <<CrateName(s, r)>>)>>
               ELSE <<InstallFlag("--version", <<CrateName(s, r)>>)>>]

\* manifest.rs: the InstallSet of manifest k
ManifestSet(kinds, k, shared) ==
    [bin      |-> IF shared THEN DstBin ELSE k,
     src      |-> k,
     installs |-> [r \in 1..Len(kinds) |-> ManifestInstall(kinds[r], k, r)]]

\* lib.rs: the one InstallSet of the crates named on the command line
ExplicitSet(n) ==
    [bin      |-> DstBin,
     src      |-> NoSrc,
     installs |-> [r \in 1..n |-> [name |-> CrateName(1, r), flags |-> <<>>]]]

KindSeqs == UNION {[1..n -> Kinds] : n \in 1..MaxInstalls}

RECURSIVE TotalLen(_)
TotalLen(ss) == IF ss = <<>> THEN 0 ELSE Len(Head(ss)) + TotalLen(Tail(ss))

ManifestShapes ==
    UNION {{ss \in [1..n -> KindSeqs] : TotalLen(ss) <= MaxInstalls} : n \in 1..MaxSets}

\* what find_cwd_installs / the command line hand to run_from_strs
Inputs ==
    {[crates |-> n, sets |-> <<>>, path |-> p] : n \in 1..MaxInstalls, p \in BOOLEAN}
    \cup
    {[crates |-> 0,
      sets   |-> [k \in 1..Len(ss) |-> ManifestSet(ss[k], k, sh)],
      path   |-> FALSE] : ss \in ManifestShapes, sh \in BOOLEAN}

\* the global pass-through options, sorted
Options(in) ==
    SortFlags(<<InstallFlag("--target-dir", <<0>>)>>
              \o IF in.path THEN <<InstallFlag("--path", <<0>>)>> ELSE <<>>)

\* the flags extended and left in the order they were given
ExtendFlags_Unsorted(flags, options) == flags \o options

\* install.flags.extend(options.clone()); install.flags.sort()
ExtendFlags(flags, options) == SortFlags(flags \o options)

\* for install in set.installs.iter_mut(): its flags extended and sorted
ExtendSet(set, options) ==
    [set EXCEPT !.installs =
        [r \in 1..Len(set.installs) |->
            [set.installs[r] EXCEPT !.flags = ExtendFlags(@, options)]]]

Installs(in) ==
    LET raw == IF in.crates > 0 THEN <<ExplicitSet(in.crates)>> ELSE in.sets
    IN  [k \in 1..Len(raw) |-> ExtendSet(raw[k], Options(in))]

\* ------------------------------------------------------------------ state
VARIABLES
    input,        \* what this machine's manifests / command line name
    runs,         \* invocations started so far
    now,          \* the filesystem clock
    dirs,         \* the destination directories that exist
    built,        \* [Dirs -> mtime of <dir>/.built], NoTime when there is none
    srcMod,       \* [Origins -> mtime of the manifest], NoTime when unreadable
    dstBins,      \* the <<dir, name>> entries published in destination dirs
    pc,           \* where run_from_strs / exec_from_args_os_after_exe is
    dry_run,      \* --dry-run
    installs,     \* Vec<InstallSet>, flags extended and sorted
    si,           \* index of the set the outer loop is at
    ri,           \* index of the request the inner loop is at
    up_to_date,   \* the freshness decision of the current set
    status,       \* ExitStatus::code() of the wait, NoCode for a signal,
                  \* NoStatus outside of the match on it
    result,       \* "none" while running, then "Ok" or "Err"
    error,        \* the Error returned, NoError when none
    exitCode,     \* the process exit code, -1 while none
    dispatched,   \* <<s, r>> for which Install::install was called in this run
    spawned,      \* <<s, r>> whose `cargo install` subprocess was spawned
    skipped,      \* <<s, r>> skipped as up to date
    published,    \* <<s, r>> whose binary was linked or copied
    marked,       \* sets whose .built was written in this run
    skippedSets,  \* sets skipped whole as up to date
    failedAt,     \* <<s, r>> of the request whose install returned Err, or <<>>
    announced,    \* <<s, r>> for which the `Skipped` status line was printed
    created,      \* create_dir_all(&dst_bin) succeeded in this run
    running,      \* <<s, r>> whose subprocess was spawned and not yet waited for
    threads,      \* <<s, r>> whose stderr filter thread was started and not yet joined
    older,        \* origins whose mtime was before the clock when this run started
    steady,       \* origins of readable mtime, not modified since the previous
                  \* run, which was no dry run and exited 0
    settled,      \* the steady origins that were older when the previous run started
    fp,           \* two install requests, on their way to their fingerprints
    flt,          \* filter_stderr: the stream it reads and what it has forwarded
    pub,          \* the publish loop of Install::install over one cache bin/
    par           \* two invocations of the program running side by side

fsVars    == <<dirs, built, srcMod, dstBins>>
ctlVars   == <<pc, dry_run, installs, si, ri, up_to_date, status, result, error, exitCode>>
logVars   == <<dispatched, spawned, skipped, published, marked, skippedSets, failedAt,
               announced, created>>
procVars  == <<running, threads>>
histVars  == <<older, steady, settled>>
mainVars  == <<input, runs, now, fsVars, ctlVars, logVars, procVars, histVars>>
auxVars   == <<fp, flt, pub, par>>
vars      == <<mainVars, auxVars>>

\* a part of the program that this behaviour does not look into
Off == [pc |-> "off"]

\* error!(..): the message format and the number it interpolates
Error(text, code) == [text |-> text, code |-> code]

\* the decision with `src <= built`
UpToDate_NonStrict(set) ==
    any_remote(set) /\ set.src # NoSrc /\ srcMod[set.src] # NoTime
    /\ built[set.bin] # NoTime /\ srcMod[set.src] <= built[set.bin]

\* let built = set.bin.join(".built"); the freshness decision of lib.rs
UpToDate(set) ==
    IF ~any_remote(set) THEN FALSE
    ELSE IF set.src # NoSrc THEN
        LET src_mod   == srcMod[set.src]
            built_mod == built[set.bin]
        IN  IF src_mod # NoTime /\ built_mod # NoTime
            THEN src_mod < built_mod
            ELSE FALSE
    ELSE FALSE

\* the guard without `any_remote`
WritesBuilt_AnyOrigin(set) == set.src # NoSrc

\* the guard asking that no request be local
WritesBuilt_NoLocal(set) == any_remote(set) /\ ~any_local(set) /\ set.src # NoSrc

\* the write forgotten
WritesBuilt_Never(set) == FALSE

\* `if any_remote && set.src.is_some()` guarding the write of .built
WritesBuilt(set) == any_remote(set) /\ set.src # NoSrc

\* the skip without the is_remote() test
SkipsInstall_AnyKind(install, utd) == utd

\* `if install.is_remote() { if up_to_date { continue } }`
SkipsInstall(install, utd) == is_remote(install) /\ utd

\* the whole-set shortcut left out
SkipsSet_Never(set, utd) == FALSE

\* `if up_to_date && !any_local { .. continue }`
SkipsSet(set, utd) == utd /\ ~any_local(set)

\* exit(0) also after an error
ExitCodeOf_Zero(res) == 0

\* exec_from_args_os_after_exe: fatal!() exits 1, otherwise exit(0)
ExitCodeOf(res) == IF res = "Ok" THEN 0 ELSE 1

\* the message without the exit code
StatusError_NoCode(code) == Error("{} failed", NoCode)

\* the message Install::install returns for a subprocess that did not exit 0
StatusError(code) ==
    IF code = NoCode THEN Error("{} failed (signal)", NoCode)
    ELSE Error("{} failed (exit code {})", code)

UsedOrigins == {k \in Origins : input.crates = 0 /\ k <= Len(input.sets)}

\* nothing has run yet: no marker, no published binary, the clock at 1
Quiet ==
    /\ runs = 0
    /\ now = 1
    /\ built = [d \in Dirs |-> NoTime]
    /\ dstBins = {}
    /\ pc = "idle"
    /\ dry_run = FALSE
    /\ installs = <<>>
    /\ si = 1
    /\ ri = 1
    /\ up_to_date = FALSE
    /\ status = NoStatus
    /\ result = "none"
    /\ error = NoError
    /\ exitCode = -1
    /\ dispatched = {}
    /\ spawned = {}
    /\ skipped = {}
    /\ published = {}
    /\ marked = {}
    /\ skippedSets = {}
    /\ failedAt = <<>>
    /\ announced = {}
    /\ created = FALSE
    /\ running = {}
    /\ threads = {}
    /\ older = {}
    /\ steady = {}
    /\ settled = {}

Init ==
    /\ input \in Inputs
    /\ Quiet
    /\ dirs \in {{}, Dirs}
    /\ \E t \in {NoTime, 0, now} :
          srcMod = [o \in Origins |-> IF o \in UsedOrigins THEN t ELSE NoTime]
    /\ fp = Off
    /\ flt = Off
    /\ pub = Off
    /\ par = Off

\* the error logged, and the set carried on to its marker
Fail_ThenMarker(e) ==
    /\ result' = "none"
    /\ error' = e
    /\ pc' = "built"

\* the error recorded, and the loop over the requests carried on
Fail_ThenLoop(e) ==
    /\ result' = "Err"
    /\ error' = e
    /\ pc' = "install"

\* a step that returns Err(e) from run_from_strs, to the fatal!() of
\* exec_from_args_os_after_exe
Fail(e) ==
    /\ result' = "Err"
    /\ error' = e
    /\ pc' = "exited"

\* exec_from_args_os_after_exe: once run_from_strs has returned, the process
\* exits, with 1 from fatal!() for an Err, with exit(0) for an Ok
Exits == exitCode' = IF result' = "none" THEN exitCode ELSE ExitCodeOf(result')

\* what happened to the manifests since the previous invocation: the clock
\* went on by dt, and the user edited the manifests of T
Edited(T, t) == [o \in Origins |-> IF o \in T THEN t ELSE srcMod[o]]

\* the program is invoked; run_from_strs up to the flags being extended and sorted
Start ==
    /\ pc \in {"idle", "exited"}
    /\ runs < MaxRuns
    /\ runs' = runs + 1
    /\ \E dt \in {0, 1}, T \in SUBSET UsedOrigins :
         /\ Cardinality(T) <= 1
         /\ now + dt <= MaxTime
         /\ pc = "idle" => dt = 0
         /\ dt = 0 => T = {}
         /\ \A o \in T : srcMod[o] \notin {NoTime, now + dt}
         /\ now' = now + dt
         /\ srcMod' = Edited(T, now + dt)
         /\ older' = {o \in UsedOrigins : srcMod'[o] # NoTime /\ srcMod'[o] < now'}
         /\ steady' = IF pc = "exited" /\ exitCode = 0 /\ ~dry_run
                       THEN {o \in UsedOrigins \ T : srcMod[o] # NoTime}
                       ELSE {}
         /\ settled' = IF pc = "exited" /\ exitCode = 0 THEN older \ T ELSE {}
    /\ dry_run' \in BOOLEAN
    /\ installs' = Installs(input)
    /\ pc' = "create_dir"
    /\ si' = 1
    /\ ri' = 1
    /\ up_to_date' = FALSE
    /\ status' = NoStatus
    /\ result' = "none"
    /\ error' = NoError
    /\ exitCode' = -1
    /\ dispatched' = {}
    /\ spawned' = {}
    /\ skipped' = {}
    /\ published' = {}
    /\ marked' = {}
    /\ skippedSets' = {}
    /\ failedAt' = <<>>
    /\ announced' = {}
    /\ created' = FALSE
    /\ running' = {}
    /\ threads' = {}
    /\ UNCHANGED <<input, dirs, built, dstBins>>
    /\ UNCHANGED auxVars

\* the errors run_from_strs returns while it parses its arguments, enumerates
\* the manifests and determines the target directory
ConfigErrors == {
    Error("{} requires an argument", NoCode),
    Error("not yet implemented: {}", NoCode),
    Error("unrecognized flag: {}", NoCode),
    Error("error enumerating Cargo.tomls: {}", NoCode),
    Error("no crates specified", NoCode),
    Error("couldn't determine target dir, {} not set", NoCode) }

\* the destination directory created before the arguments are checked
ConfigFail_AfterCreateDir(e) ==
    /\ result' = "Err"
    /\ error' = e
    /\ pc' = "exited"
    /\ dirs' = dirs \cup {DstBin}
    /\ created' = TRUE

\* `return Err(error!(..))` and `..?` of run_from_strs above create_dir_all
ConfigFail(e) ==
    /\ result' = "Err"
    /\ error' = e
    /\ pc' = "exited"
    /\ dirs' = dirs
    /\ created' = FALSE

\* the program is invoked with arguments, manifests or an environment that
\* run_from_strs rejects
BadStart ==
    /\ pc \in {"idle", "exited"}
    /\ runs < MaxRuns
    /\ runs' = runs + 1
    /\ \E e \in ConfigErrors : ConfigFail(e)
    /\ dry_run' = FALSE
    /\ installs' = <<>>
    /\ si' = 1
    /\ ri' = 1
    /\ up_to_date' = FALSE
    /\ status' = NoStatus
    /\ Exits
    /\ dispatched' = {}
    /\ spawned' = {}
    /\ skipped' = {}
    /\ published' = {}
    /\ marked' = {}
    /\ skippedSets' = {}
    /\ failedAt' = <<>>
    /\ announced' = {}
    /\ older' = {}
    /\ steady' = {}
    /\ settled' = {}
    /\ running' = {}
    /\ threads' = {}
    /\ UNCHANGED <<input, now, built, srcMod, dstBins>>
    /\ UNCHANGED auxVars

\* if !dry_run { create_dir_all(&dst_bin)? }
CreateDir ==
    /\ pc = "create_dir"
    /\ \/ /\ dry_run
          /\ pc' = "set"
          /\ UNCHANGED <<dirs, created, result, error>>
       \/ /\ ~dry_run
          /\ dirs' = dirs \cup {DstBin}
          /\ created' = TRUE
          /\ pc' = "set"
          /\ UNCHANGED <<result, error>>
       \/ /\ ~dry_run
          /\ DstBin \notin dirs
          /\ Fail(Error("unable to create {}: {}", NoCode))
          /\ UNCHANGED <<dirs, created>>
    /\ Exits
    /\ UNCHANGED <<input, runs, now, built, srcMod, dstBins, dry_run, installs, si, ri,
                   up_to_date, status, dispatched, spawned, skipped,
                   published, marked, skippedSets, failedAt, announced, procVars,
                   histVars>>
    /\ UNCHANGED auxVars

\* for set in installs: the freshness decision, or the end of the loop
NextSet ==
    /\ pc = "set"
    /\ IF si > Len(installs)
       THEN /\ result' = "Ok"
            /\ pc' = "exited"
            /\ UNCHANGED <<si, ri, up_to_date, skippedSets>>
       ELSE LET set == installs[si]
                utd == UpToDate(set)
            IN  IF Len(set.installs) = 0
                THEN /\ si' = si + 1
                     /\ UNCHANGED <<pc, ri, up_to_date, result, skippedSets>>
                ELSE IF SkipsSet(set, utd)
                THEN /\ skippedSets' = skippedSets \cup {si}
                     /\ si' = si + 1
                     /\ UNCHANGED <<pc, ri, up_to_date, result>>
                ELSE /\ up_to_date' = utd
                     /\ ri' = 1
                     /\ pc' = "install"
                     /\ UNCHANGED <<si, result, skippedSets>>
    /\ Exits
    /\ UNCHANGED <<input, runs, now, fsVars, dry_run, installs, status, error,
                   dispatched, spawned, skipped, published, marked, failedAt,
                   announced, created, procVars, histVars>>
    /\ UNCHANGED auxVars

\* the subprocess spawned, and the next request gone on to without a wait
Spawned_NoWait(p) ==
    /\ spawned' = spawned \cup {p}
    /\ running' = running \cup {p}
    /\ threads' = threads
    /\ ri' = ri + 1
    /\ pc' = pc

\* cmd.spawn() is Ok: the subprocess runs, and cmd.stderr.take().map(..) starts
\* the thread of filter_stderr on its piped stderr
Spawned(p) ==
    /\ spawned' = spawned \cup {p}
    /\ running' = running \cup {p}
    /\ threads' = threads \cup {p}
    /\ pc' = "wait"
    /\ UNCHANGED ri

\* cmd.spawn() is Err: `?` returns before any thread is started
SpawnFailed(p) ==
    /\ Fail(Error("failed to spawn {}: {}", NoCode))
    /\ failedAt' = p
    /\ UNCHANGED <<ri, spawned, running, threads>>

\* the dry run that spawns all the same
Skipped_Spawns(p) ==
    /\ announced' = announced \cup {p}
    /\ spawned' = spawned \cup {p}
    /\ ri' = ri + 1

\* else { statusln!("Skipped", "`{}` (--dry-run)", trace); return Ok(()); }
Skipped(p) ==
    /\ announced' = announced \cup {p}
    /\ spawned' = spawned
    /\ ri' = ri + 1

\* for install in set.installs: skip, or Install::install up to the spawn
NextInstall ==
    /\ pc = "install"
    /\ LET set == installs[si] IN
       IF ri > Len(set.installs)
       THEN /\ pc' = "built"
            /\ UNCHANGED <<ri, result, error, dispatched, spawned, skipped, failedAt,
                           announced, procVars>>
       ELSE IF SkipsInstall(set.installs[ri], up_to_date)
       THEN /\ skipped' = skipped \cup {<<si, ri>>}
            /\ ri' = ri + 1
            /\ UNCHANGED <<pc, result, error, dispatched, spawned, failedAt,
                           announced, procVars>>
       ELSE /\ dispatched' = dispatched \cup {<<si, ri>>}
            /\ UNCHANGED skipped
            /\ \/ /\ dry_run
                  /\ Skipped(<<si, ri>>)
                  /\ UNCHANGED <<pc, result, error, failedAt, procVars>>
               \/ /\ ~dry_run
                  /\ Spawned(<<si, ri>>)
                  /\ UNCHANGED <<result, error, failedAt, announced>>
               \/ /\ ~dry_run
                  /\ SpawnFailed(<<si, ri>>)
                  /\ UNCHANGED announced
    /\ Exits
    /\ UNCHANGED <<input, runs, now, fsVars, dry_run, installs, si, up_to_date, status,
                   published, marked, skippedSets, created, histVars>>
    /\ UNCHANGED auxVars

\* let status = cmd.wait(): the subprocess has ended, or the wait failed
Wait ==
    /\ pc = "wait"
    /\ \/ /\ status' = WaitErr
          /\ UNCHANGED running
       \/ \E code \in ExitCodes \cup {NoCode} :
            /\ status' = code
            /\ running' = running \ {<<si, ri>>}
    /\ pc' = "join"
    /\ UNCHANGED <<input, runs, now, fsVars, dry_run, installs, si, ri, up_to_date,
                   result, error, exitCode, logVars, threads, histVars>>
    /\ UNCHANGED auxVars

\* the thread left to run on its own
Joined_Detached(T, p) == T

\* stderr_thread.map(|t| t.join()): the filter thread has ended
Joined(T, p) == T \ {p}

\* the join of the stderr thread, then status.map_err(..)? and the match on
\* status.code()
Join ==
    /\ pc = "join"
    /\ threads' = Joined(threads, <<si, ri>>)
    /\ IF status = WaitErr
       THEN /\ Fail(Error("failed to execute {}: {}", NoCode))
            /\ failedAt' = <<si, ri>>
            /\ status' = NoStatus
       ELSE IF status = 0
       THEN /\ pc' = "publish"
            /\ UNCHANGED <<status, result, error, failedAt>>
       ELSE /\ Fail(StatusError(status))
            /\ failedAt' = <<si, ri>>
            /\ UNCHANGED status
    /\ Exits
    /\ UNCHANGED <<input, runs, now, fsVars, dry_run, installs, si, ri, up_to_date,
                   dispatched, spawned, skipped, published, marked,
                   skippedSets, announced, created, running, histVars>>
    /\ UNCHANGED auxVars

\* read_dir of <cache>/bin, then remove_file + symlink, or copy, per file
Publish ==
    /\ pc = "publish"
    /\ LET set   == installs[si]
           entry == <<set.bin, set.installs[ri].name>>
       IN  \/ /\ Fail(Error("unable to enumerate source bins at {}: {}", NoCode))
              /\ failedAt' = <<si, ri>>
              /\ UNCHANGED <<dstBins, published, ri, status>>
           \/ /\ set.bin \in dirs
              /\ dstBins' = dstBins \cup {entry}
              /\ published' = published \cup {<<si, ri>>}
              /\ ri' = ri + 1
              /\ pc' = "install"
              /\ status' = NoStatus
              /\ UNCHANGED <<result, error, failedAt>>
           \/ /\ dstBins' = dstBins \ {entry}
              /\ Fail(Error("error replacing {} with {}: {}", NoCode))
              /\ failedAt' = <<si, ri>>
              /\ UNCHANGED <<published, ri, status>>
    /\ Exits
    /\ UNCHANGED <<input, runs, now, dirs, built, srcMod, dry_run, installs, si,
                   up_to_date, dispatched, spawned, skipped,
                   marked, skippedSets, announced, created, procVars, histVars>>
    /\ UNCHANGED auxVars

\* if any_remote && set.src.is_some() { fs::write(&built, "")? }
WriteBuilt ==
    /\ pc = "built"
    /\ LET set == installs[si] IN
       IF WritesBuilt(set)
       THEN \/ /\ set.bin \in dirs
               /\ built' = [built EXCEPT ![set.bin] = now]
               /\ marked' = marked \cup {si}
               /\ si' = si + 1
               /\ pc' = "set"
               /\ UNCHANGED <<result, error>>
            \/ /\ Fail(Error("unable to create {}: {}", NoCode))
               /\ UNCHANGED <<built, marked, si>>
       ELSE /\ si' = si + 1
            /\ pc' = "set"
            /\ UNCHANGED <<built, marked, result, error>>
    /\ Exits
    /\ UNCHANGED <<input, runs, now, dirs, srcMod, dstBins, dry_run, installs, ri,
                   up_to_date, status, dispatched, spawned, skipped,
                   published, skippedSets, failedAt, announced, created, procVars,
                   histVars>>
    /\ UNCHANGED auxVars

Next ==
    \/ Start
    \/ BadStart
    \/ CreateDir
    \/ NextSet
    \/ NextInstall
    \/ Wait
    \/ Join
    \/ Publish
    \/ WriteBuilt

Spec == Init /\ [][Next]_vars

\* the program is not running, and nothing has run
Stopped ==
    /\ input = [crates |-> 1, sets |-> <<>>, path |-> FALSE]
    /\ Quiet
    /\ dirs = {}
    /\ srcMod = [o \in Origins |-> NoTime]

\* --------------------------------------------- the fingerprint of a request
MaxFlags == 2       \* flags of one request, its own and the global options together

\* the pass-through flags the requests are made of
FpFlags == {InstallFlag("-f", <<>>), InstallFlag("--locked", <<>>),
            InstallFlag("--version", <<1>>), InstallFlag("--version", <<2>>)}

FpNames == {1, 2}

FlagSeqs == UNION {[1..n -> FpFlags] : n \in 0..MaxFlags}

\* a request before the flags are extended: its name, its own flags (of the
\* manifest) and the global options, both in the order they were given in
FpRequests ==
    {r \in [name : FpNames, flags : FlagSeqs, options : FlagSeqs] :
        Len(r.flags) + Len(r.options) <= MaxFlags}

\* options.push(--target-dir ..); options.sort(); then, per install,
\* install.flags.extend(options.clone()); install.flags.sort()
FpSorted(r) ==
    LET options == SortFlags(r.options \o <<InstallFlag("--target-dir", <<0>>)>>)
    IN  [name |-> r.name, flags |-> ExtendFlags(r.flags, options)]

\* write!(&mut trace, " {:?}", arg): the argument in double quotes
Debug(arg) == <<"\"0\"", "\"1\"", "\"2\"">>[arg + 1]

\* self.name.to_string_lossy()
Lossy(name) == <<"crate1", "crate2">>[name]

RECURSIVE ArgsTrace(_)
ArgsTrace(args) ==
    IF args = <<>> THEN <<>>
    ELSE <<Debug(Head(args))>> \o ArgsTrace(Tail(args))

\* for InstallFlag { flag, args } in self.flags: " {flag}", then " {:?}" per arg
RECURSIVE FlagsTrace(_)
FlagsTrace(flags) ==
    IF flags = <<>> THEN <<>>
    ELSE <<Head(flags).flag>> \o ArgsTrace(Head(flags).args) \o FlagsTrace(Tail(flags))

\* format!("{} -- {}", trace, self.name.to_string_lossy()), word by word
TraceForHash(install) ==
    <<"cargo install">> \o FlagsTrace(install.flags) \o <<"--", Lossy(install.name)>>

\* the words a trace is made of; a word's number stands for its bytes
Words == <<"cargo install", "--", "--locked", "--path", "--target-dir", "--version",
           "-f", "\"0\"", "\"1\"", "\"2\"", "crate1", "crate2">>

WordCode(w) == CHOOSE i \in 1..Len(Words) : Words[i] = w

\* the values of the hasher, cut from 2^64 to 2^24
HashSpace == 2^24

\* SipHasher::new(), trace_for_hash.hash(&mut hasher), hasher.finish(): a fixed
\* function of the bytes written, here a polynomial in the numbers of the words
RECURSIVE SipHash(_, _)
SipHash(h, words) ==
    IF words = <<>> THEN h
    ELSE SipHash((h * 31 + WordCode(Head(words))) % HashSpace, Tail(words))

HexDigits == <<"0", "1", "2", "3", "4", "5", "6", "7",
               "8", "9", "a", "b", "c", "d", "e", "f">>

\* format!("{:016x}", ..): sixteen lower case hex digits, zeros in front
Hex16(h) ==
    [i \in 1..16 |-> IF i <= 8 THEN "0" ELSE HexDigits[((h \div 16^(16 - i)) % 16) + 1]]

\* let hash = ..; let krate_build_dir = crates_cache_dir.join(hash)
Fingerprint(install) ==
    LET hash == Hex16(SipHash(0, TraceForHash(install)))
    IN  [hash |-> hash, krate_build_dir |-> <<"crates", hash>>]

\* two requests, as the manifest and the command line gave them
FpInit ==
    /\ Stopped
    /\ fp \in {[pc |-> "parsed", a |-> ra, b |-> rb] :
                  ra \in {r \in FpRequests : r.name = 1}, rb \in FpRequests}
    /\ flt = Off
    /\ pub = Off
    /\ par = Off

\* run_from_strs: the options sorted, the flags of both requests extended and sorted
FpSort ==
    /\ fp.pc = "parsed"
    /\ fp' = [pc |-> "sorted", a |-> fp.a, b |-> fp.b,
              ia |-> FpSorted(fp.a), ib |-> FpSorted(fp.b)]
    /\ UNCHANGED <<mainVars, flt, pub, par>>

\* Install::install: the hash and the cache directory of both requests
FpHash ==
    /\ fp.pc = "sorted"
    /\ fp' = [pc |-> "hashed", a |-> fp.a, b |-> fp.b, ia |-> fp.ia, ib |-> fp.ib,
              ha |-> Fingerprint(fp.ia), hb |-> Fingerprint(fp.ib)]
    /\ UNCHANGED <<mainVars, flt, pub, par>>

FpNext ==
    \/ FpSort
    \/ FpHash

SpecFp == FpInit /\ [][FpNext]_vars

\* ------------------------------------------------------------ filter_stderr
MaxLines == 2       \* lines of the subprocess's stderr

\* struct Ignore
Ignore(pre, prec, post) == [pre |-> pre, prec |-> prec, post |-> post]

\* static IGNORE: a line is a sequence of words, each text of the table one
\* word (ESC for \u{1b}, ' for the backquote)
IGNORE == <<
    Ignore(<<"     Ignored package '">>,
           <<"ESC[0mESC[0mESC[1mESC[32m     IgnoredESC[0m package '">>,
           <<"' is already installed, use --force to override">>),
    Ignore(<<"warning: be sure to add '">>,
           <<"ESC[0mESC[0mESC[1mESC[33mwarningESC[0mESC[1m:ESC[0m be sure to add '">>,
           <<"' to your PATH to be able to run the installed binaries">>),
    Ignore(<<"   Replacing ">>,
           <<"ESC[0mESC[0mESC[1mESC[32m   ReplacingESC[0m ">>,
           <<>>),
    Ignore(<<"    Replaced ">>,
           <<"ESC[0mESC[0mESC[1mESC[32m    ReplacedESC[0m ">>,
           <<>>),
    Ignore(<<"    Finished ">>,
           <<"ESC[0mESC[0mESC[1mESC[32m    FinishedESC[0m ">>,
           <<>>) >>

\* str::starts_with, str::ends_with
StartsWith(line, p) == Len(p) <= Len(line) /\ SubSeq(line, 1, Len(p)) = p
EndsWith(line, p) ==
    Len(p) <= Len(line) /\ SubSeq(line, Len(line) - Len(p) + 1, Len(line)) = p

\* the test with the plain prefix only
ignored_PlainOnly(line) ==
    \E k \in 1..Len(IGNORE) :
        EndsWith(line, IGNORE[k].post) /\ StartsWith(line, IGNORE[k].pre)

\* IGNORE.iter().any(|ignore| line.ends_with(ignore.post) &&
\*     (line.starts_with(ignore.pre) || line.starts_with(ignore.prec)))
ignored(line) ==
    \E k \in 1..Len(IGNORE) :
        /\ EndsWith(line, IGNORE[k].post)
        /\ StartsWith(line, IGNORE[k].pre) \/ StartsWith(line, IGNORE[k].prec)

\* what a line of cargo's stderr begins and ends with
Heads == {<<>>, <<"text">>}
            \cup {IGNORE[k].pre : k \in 1..Len(IGNORE)}
            \cup {IGNORE[k].prec : k \in 1..Len(IGNORE)}
Tails == {<<>>, <<"text">>} \cup {IGNORE[k].post : k \in 1..Len(IGNORE)}

\* bytes that are no UTF-8: BufRead::lines yields an Err for them
BadLine == <<"\\xff">>

FltLines == {h \o t : h \in Heads, t \in Tails} \cup {BadLine}

\* what the subprocess writes to its stderr before it closes it: its lines, and
\* whether the last of them ends with a line separator
Streams ==
    {[lines |-> ls, terminated |-> t] :
        ls \in UNION {[1..n -> FltLines] : n \in 0..MaxLines}, t \in BOOLEAN}

\* the thread of filter_stderr is started on the stderr of a subprocess
FltInit ==
    /\ Stopped
    /\ fp = Off
    /\ \E st \in Streams :
          /\ st.lines = <<>> => st.terminated
          /\ flt = [pc |-> "reading", lines |-> st.lines, terminated |-> st.terminated,
                    pos |-> 0, out |-> <<>>]
    /\ pub = Off
    /\ par = Off

\* the next item of BufReader::new(input).lines(): a line, or the rest of the
\* stream when it closed without a line separator
NextLine == flt.lines[flt.pos + 1]

\* eprintln!("{}", line)
FilterForward ==
    /\ flt.pc = "reading"
    /\ flt.pos < Len(flt.lines)
    /\ NextLine # BadLine
    /\ ~ignored(NextLine)
    /\ flt' = [flt EXCEPT !.pos = @ + 1, !.out = Append(@, NextLine)]
    /\ UNCHANGED <<mainVars, fp, pub, par>>

\* if IGNORE.iter().any(..) { continue }
FilterSuppress ==
    /\ flt.pc = "reading"
    /\ flt.pos < Len(flt.lines)
    /\ NextLine # BadLine
    /\ ignored(NextLine)
    /\ flt' = [flt EXCEPT !.pos = @ + 1]
    /\ UNCHANGED <<mainVars, fp, pub, par>>

\* let line = line?: the read failed, filter_stderr returns the Err
FilterFail ==
    /\ flt.pc = "reading"
    /\ flt.pos < Len(flt.lines)
    /\ NextLine = BadLine
    /\ flt' = [flt EXCEPT !.pc = "err"]
    /\ UNCHANGED <<mainVars, fp, pub, par>>

\* the stream is at its end: Ok(())
FilterEnd ==
    /\ flt.pc = "reading"
    /\ flt.pos = Len(flt.lines)
    /\ flt' = [flt EXCEPT !.pc = "ok"]
    /\ UNCHANGED <<mainVars, fp, pub, par>>

FltNext ==
    \/ FilterForward
    \/ FilterSuppress
    \/ FilterFail
    \/ FilterEnd

SpecFilter == FltInit /\ [][FltNext]_vars

\* ------------------------------------------- the publish loop of Install::install
MaxFiles == 2       \* entries of the cache directory <crates>/<hash>/bin

NoContent == -1     \* the name does not resolve to a file
Truncated == 0      \* the content of a file opened with truncate and not written
OldContent == 9     \* what an earlier build of another fingerprint left

\* the content `cargo install` built for entry k
Artifact(k) == k

\* what <set.bin>/<file name> may be before the publish
Absent      == [kind |-> "absent", content |-> NoContent]
Directory   == [kind |-> "dir", content |-> NoContent]
LinkToCache == [kind |-> "link", content |-> NoContent]  \* a link to this cache file
File(c)     == [kind |-> "file", content |-> c]
LinkTo(c)   == [kind |-> "stale", content |-> c]   \* a link to a file elsewhere
DestEntries == {Absent, Directory, LinkToCache, File(OldContent), LinkTo(OldContent)}

\* what the destination name resolves to
Resolve(entry, cached) ==
    IF entry.kind = "link" THEN cached ELSE entry.content

\* Install::install has waited for its subprocess, which exited 0
PubInit ==
    /\ Stopped
    /\ fp = Off
    /\ flt = Off
    /\ par = Off
    /\ \E n \in 1..MaxFiles :
       \E is_file \in [1..n -> BOOLEAN], dest \in [1..n -> DestEntries] :
          pub = [pc |-> "read_dir", is_file |-> is_file, dest |-> dest,
                 cache |-> [k \in 1..n |-> Artifact(k)], i |-> 1, ops |-> <<>>,
                 error |-> NoError]

PubFail(e) == pub' = [pub EXCEPT !.pc = "failed", !.error = e]

\* let src_bins = src_bin_path.read_dir()..?
PubReadDir ==
    /\ pub.pc = "read_dir"
    /\ \/ pub' = [pub EXCEPT !.pc = "entry"]
       \/ PubFail(Error("unable to enumerate source bins at {}: {}", NoCode))
    /\ UNCHANGED <<mainVars, fp, flt, par>>

\* for src_bin in src_bins: its file type, `if !file_type.is_file() { continue }`
PubEntry ==
    /\ pub.pc = "entry"
    /\ IF pub.i > Len(pub.is_file)
       THEN pub' = [pub EXCEPT !.pc = "done"]
       ELSE \/ PubFail(Error("error determining file type for {}: {}", NoCode))
            \/ /\ ~pub.is_file[pub.i]
               /\ pub' = [pub EXCEPT !.i = @ + 1]
            \/ /\ pub.is_file[pub.i]
               /\ pub' = [pub EXCEPT !.pc = "remove", !.ops = <<>>]
    /\ UNCHANGED <<mainVars, fp, flt, par>>

\* let _ = std::fs::remove_file(&dst_bin): a file or a link is removed, or
\* the removal fails and the failure is dropped
PubRemove ==
    /\ pub.pc = "remove"
    /\ \/ /\ pub.dest[pub.i].kind \in {"file", "link", "stale"}
          /\ pub' = [pub EXCEPT !.dest[pub.i] = Absent, !.pc = "symlink",
                                !.ops = Append(@, "remove")]
       \/ pub' = [pub EXCEPT !.pc = "symlink", !.ops = Append(@, "remove")]
    /\ UNCHANGED <<mainVars, fp, flt, par>>

\* if let Err(err) = symlink(&src_bin, &dst_bin) { warnln!(..) } else { continue }
PubSymlink ==
    /\ pub.pc = "symlink"
    /\ \/ /\ pub.dest[pub.i].kind = "absent"
          /\ pub' = [pub EXCEPT !.dest[pub.i] = LinkToCache, !.pc = "entry",
                                !.i = @ + 1, !.ops = Append(@, "symlink")]
       \/ pub' = [pub EXCEPT !.pc = "copy", !.ops = Append(@, "symlink")]
    /\ UNCHANGED <<mainVars, fp, flt, par>>

\* std::fs::copy(&src_bin, &dst_bin) that returns Ok: the destination is opened
\* for writing (following a link), truncated, and the bytes of the source, as
\* they then are, are written to it
Copied(entry, cached) ==
    CASE entry.kind \in {"absent", "file"} -> [dest |-> File(cached), cache |-> cached]
      [] entry.kind = "stale" -> [dest |-> LinkTo(cached), cache |-> cached]
      [] entry.kind = "link"  -> [dest |-> entry, cache |-> Truncated]

\* std::fs::copy(..)..?, then statusln!("Replaced", ..)
PubCopy ==
    /\ pub.pc = "copy"
    /\ LET entry == pub.dest[pub.i]
           after == Copied(entry, pub.cache[pub.i])
       IN  \/ /\ entry.kind # "dir"
              /\ pub' = [pub EXCEPT !.dest[pub.i] = after.dest,
                                    !.cache[pub.i] = after.cache,
                                    !.pc = "entry", !.i = @ + 1,
                                    !.ops = Append(@, "copy")]
           \/ pub' = [pub EXCEPT !.pc = "failed", !.ops = Append(@, "copy"),
                         !.error = Error("error replacing {} with {}: {}", NoCode)]
           \/ /\ entry.kind = "link"
              /\ pub' = [pub EXCEPT !.cache[pub.i] = Truncated,
                            !.pc = "failed", !.ops = Append(@, "copy"),
                            !.error = Error("error replacing {} with {}: {}", NoCode)]
    /\ UNCHANGED <<mainVars, fp, flt, par>>

PubNext ==
    \/ PubReadDir
    \/ PubEntry
    \/ PubRemove
    \/ PubSymlink
    \/ PubCopy

SpecPublish == PubInit /\ [][PubNext]_vars

\* ------------------------------------------- the cache directory of a request
NoTargetDir == -1   \* target_dir: None
GivenTargetDir == 2 \* the directory of an explicit --target-dir
Homes == {0, 1}     \* the directories HOME (USERPROFILE) may name
DstBins == {0, 1}   \* the directories --root / --out-bin may name

\* what run_from_strs parsed and hands to Install::install
Contexts ==
    [dry_run : BOOLEAN, dst_bin : DstBins, home : Homes,
     target_dir : {NoTargetDir, GivenTargetDir}]

\* global_dir = $HOME/.cargo/local-install
global_dir(context) == <<context.home, ".cargo", "local-install">>

\* crates_cache_dir = global_dir.join("crates")
crates_cache_dir(context) == Append(global_dir(context), "crates")

\* target_dir.map_or_else(|| Ok(global_dir.join("target")), ..): the directory
\* given, or the one below the home directory (named by the home's number)
TargetDir(context) ==
    IF context.target_dir = NoTargetDir THEN context.home ELSE context.target_dir

\* options.push(InstallFlag::new("--target-dir", ..)); options.sort();
\* install.flags.extend(options.clone()); install.flags.sort()
Extended(install, context) ==
    LET options == SortFlags(<<InstallFlag("--target-dir", <<TargetDir(context)>>)>>)
    IN  [name |-> install.name, flags |-> ExtendFlags(install.flags, options)]

\* the hash taken over the destination too
Command_PerDestination(install, context) ==
    LET trace == <<"cargo install">> \o FlagsTrace(install.flags)
        hash  == Hex16(SipHash(context.dst_bin, trace \o <<"--", Lossy(install.name)>>))
        krate_build_dir == Append(crates_cache_dir(context), hash)
    IN  [hash |-> hash, krate_build_dir |-> krate_build_dir,
         trace |-> trace \o <<"--root", krate_build_dir, "--color always",
                              "--", Lossy(install.name)>>]

\* Install::install up to `if verbose`: the trace of the flags, the hash of
\* "{trace} -- {name}", the cache directory crates_cache_dir.join(hash), and
\* the rest of the command: --root <krate_build_dir> --color always -- <name>
Command(install, context) ==
    LET trace == <<"cargo install">> \o FlagsTrace(install.flags)
        hash  == Hex16(SipHash(0, trace \o <<"--", Lossy(install.name)>>))
        krate_build_dir == Append(crates_cache_dir(context), hash)
    IN  [hash |-> hash, krate_build_dir |-> krate_build_dir,
         trace |-> trace \o <<"--root", krate_build_dir, "--color always",
                              "--", Lossy(install.name)>>]

\* the requests of a manifest or of the command line, their own flags sorted
CacheInstalls ==
    {[name |-> r.name, flags |-> SortFlags(r.flags)] :
        r \in {q \in FpRequests : q.options = <<>>}}

\* two requests, each of an invocation of its own: the first is built into
\* destination 0 under home 0, the second comes with any context
CacheInit ==
    /\ Stopped
    /\ fp \in {[pc |-> "requests", a |-> ia, b |-> ib, ca |-> ca, cb |-> cb] :
                  ia \in {i \in CacheInstalls : i.name = 1}, ib \in CacheInstalls,
                  ca \in {c \in Contexts : ~c.dry_run /\ c.dst_bin = 0 /\ c.home = 0},
                  cb \in Contexts}
    /\ flt = Off
    /\ pub = Off
    /\ par = Off

\* run_from_strs: --target-dir joins the flags of both requests
CacheExtend ==
    /\ fp.pc = "requests"
    /\ fp' = [fp EXCEPT !.pc = "extended",
                        !.a = Extended(fp.a, fp.ca), !.b = Extended(fp.b, fp.cb)]
    /\ UNCHANGED <<mainVars, flt, pub, par>>

\* Install::install: the command of both requests
CacheCommand ==
    /\ fp.pc = "extended"
    /\ fp' = [pc |-> "commands", a |-> fp.a, b |-> fp.b, ca |-> fp.ca, cb |-> fp.cb,
              cmda |-> Command(fp.a, fp.ca), cmdb |-> Command(fp.b, fp.cb),
              roots |-> <<>>, skips |-> 0]
    /\ UNCHANGED <<mainVars, flt, pub, par>>

\* if !dry_run { cmd.spawn() .. }: cargo builds into the directory of --root
CacheSpawn ==
    /\ fp.pc = "commands"
    /\ Len(fp.roots) + fp.skips < 2
    /\ LET first == Len(fp.roots) + fp.skips = 0
           context == IF first THEN fp.ca ELSE fp.cb
           cmd == IF first THEN fp.cmda ELSE fp.cmdb
       IN  /\ ~context.dry_run
           /\ fp' = [fp EXCEPT !.roots = Append(@, cmd.trace[Len(cmd.trace) - 3])]
    /\ UNCHANGED <<mainVars, flt, pub, par>>

\* else { statusln!("Skipped", ..); return Ok(()) }
CacheSkip ==
    /\ fp.pc = "commands"
    /\ Len(fp.roots) + fp.skips < 2
    /\ LET first == Len(fp.roots) + fp.skips = 0
           context == IF first THEN fp.ca ELSE fp.cb
       IN  /\ context.dry_run
           /\ fp' = [fp EXCEPT !.skips = @ + 1]
    /\ UNCHANGED <<mainVars, flt, pub, par>>

CacheNext ==
    \/ CacheExtend
    \/ CacheCommand
    \/ CacheSpawn
    \/ CacheSkip

SpecCache == CacheInit /\ [][CacheNext]_vars

\* ------------------------------------ two invocations running side by side
Invocations == {1, 2}
ParHashes == {1, 2}       \* the fingerprints their requests may have

Other(i) == 3 - i

\* the subprocess of the other invocation is in the middle of writing into
\* the cache directory of invocation i
WrittenByOther(i) ==
    /\ par.hash[Other(i)] = par.hash[i]
    /\ par.cargo[Other(i)] = "writing"

\* each invocation is in Install::install with one request, the command made;
\* <crates>/<hash>/bin of either fingerprint is missing or left by an earlier run
ParInit ==
    /\ Stopped
    /\ fp = Off
    /\ flt = Off
    /\ pub = Off
    /\ \E h \in ParHashes, b \in [ParHashes -> {"missing", "complete"}] :
          par = [pc |-> "on", hash |-> <<1, h>>, at |-> <<"spawn", "spawn">>,
                 cargo |-> <<"none", "none">>, code |-> <<NoStatus, NoStatus>>,
                 bin |-> b, got |-> <<"nothing", "nothing">>,
                 listed |-> <<FALSE, FALSE>>, raced |-> <<FALSE, FALSE>>,
                 overlap |-> FALSE]

\* cmd.spawn(): the subprocess runs, or the install fails
ParSpawn(i) ==
    /\ par.pc = "on"
    /\ par.at[i] = "spawn"
    /\ \/ par' = [par EXCEPT !.at[i] = "wait", !.cargo[i] = "running"]
       \/ par' = [par EXCEPT !.at[i] = "err"]
    /\ UNCHANGED <<mainVars, fp, flt, pub>>

\* the subprocess, `cargo install --root <crates>/<hash>`, starts to write the
\* binary into <crates>/<hash>/bin
CargoWrite(i) ==
    /\ par.pc = "on"
    /\ par.cargo[i] = "running"
    /\ par' = [par EXCEPT !.cargo[i] = "writing", !.bin[par.hash[i]] = "partial",
                          !.overlap = @ \/ WrittenByOther(i)]
    /\ UNCHANGED <<mainVars, fp, flt, pub>>

\* the subprocess exits: with 0 and the binary written whole, with 0 and
\* nothing to do, or with a failure that leaves what it has written
CargoExit(i) ==
    /\ par.pc = "on"
    /\ par.cargo[i] \in {"running", "writing"}
    /\ \E n \in {0, 1} :
          par' = [par EXCEPT
                    !.cargo[i] = "exited", !.code[i] = n,
                    !.bin[par.hash[i]] =
                        IF par.cargo[i] = "writing" /\ n = 0 /\ ~WrittenByOther(i)
                        THEN "complete" ELSE @]
    /\ UNCHANGED <<mainVars, fp, flt, pub>>

\* cmd.wait(), the join of the filter thread and the match on status.code()
ParWait(i) ==
    /\ par.pc = "on"
    /\ par.at[i] = "wait"
    /\ par.cargo[i] = "exited"
    /\ par' = [par EXCEPT !.at[i] = IF par.code[i] = 0 THEN "publish" ELSE "err"]
    /\ UNCHANGED <<mainVars, fp, flt, pub>>

\* read_dir taken only while no other subprocess writes into the directory
ParReadDir_Locked(i) ==
    /\ par.pc = "on"
    /\ par.at[i] = "publish"
    /\ ~WrittenByOther(i)
    /\ par' = [par EXCEPT !.at[i] = IF par.bin[par.hash[i]] = "missing"
                                    THEN "err" ELSE "entries",
                          !.listed[i] = FALSE]
    /\ UNCHANGED <<mainVars, fp, flt, pub>>

\* krate_build_dir.join("bin").read_dir(): an error when there is no such
\* directory, else its entries
ParReadDir(i) ==
    /\ par.pc = "on"
    /\ par.at[i] = "publish"
    /\ par' = [par EXCEPT !.at[i] = IF par.bin[par.hash[i]] = "missing"
                                    THEN "err" ELSE "entries",
                          !.listed[i] = WrittenByOther(i)]
    /\ UNCHANGED <<mainVars, fp, flt, pub>>

\* for src_bin in src_bins: the binary as it is in the cache at this moment
\* is linked or copied to the destination
ParPublish(i) ==
    /\ par.pc = "on"
    /\ par.at[i] = "entries"
    /\ par' = [par EXCEPT !.at[i] = "ok", !.got[i] = par.bin[par.hash[i]],
                          !.raced[i] = par.listed[i] /\ WrittenByOther(i)]
    /\ UNCHANGED <<mainVars, fp, flt, pub>>

ParNext ==
    \E i \in Invocations :
        \/ ParSpawn(i)
        \/ CargoWrite(i)
        \/ CargoExit(i)
        \/ ParWait(i)
        \/ ParReadDir(i)
        \/ ParPublish(i)

SpecPar == ParInit /\ [][ParNext]_vars

\* ---------------------------------------------------------------- claims
InLoop  == pc \in {"install", "wait", "publish", "built"}
Ended   == pc = "exited"
CurSet  == installs[si]
Req(s, r) == installs[s].installs[r]
Reqs(s) == 1..Len(installs[s].installs)
Positions == {<<s, r>> \in (1..MaxSets) \X (1..MaxInstalls) :
                s <= Len(installs) /\ r \in Reqs(s)}
After(p, q) == q[1] > p[1] \/ (q[1] = p[1] /\ q[2] > p[2])
Untouched(s) == \A r \in Reqs(s) :
    <<s, r>> \notin dispatched \cup spawned \cup skipped \cup published

\* the condition of C1, read off the filesystem
Fresh(set) ==
    /\ any_remote(set)
    /\ set.src # NoSrc
    /\ srcMod[set.src] # NoTime
    /\ built[set.bin] # NoTime
    /\ built[set.bin] > srcMod[set.src]

\* C1: a set is up to date iff it has a remote request, an origin, both mtimes
\* readable and the marker strictly newer than the origin; a set that is not up
\* to date has none of its requests skipped and all of them run
C1_Freshness ==
    /\ InLoop => (up_to_date <=> Fresh(CurSet))
    /\ \A s \in skippedSets : Fresh(installs[s])
    /\ InLoop /\ ~up_to_date =>
          \A r \in Reqs(si) :
             /\ <<si, r>> \notin skipped
             /\ (r < ri \/ pc = "built") => <<si, r>> \in dispatched
             /\ (r < ri \/ pc = "built") /\ ~dry_run => <<si, r>> \in spawned

\* a set whose marker is exactly as old as its origin has run all its requests
C1_Witness ==
    /\ pc = "built"
    /\ ~up_to_date
    /\ ~dry_run
    /\ Len(CurSet.installs) = 2
    /\ any_remote(CurSet)
    /\ CurSet.src # NoSrc
    /\ srcMod[CurSet.src] # NoTime
    /\ built[CurSet.bin] = srcMod[CurSet.src]

\* C2: in an up to date set with local and remote requests, every local request
\* is run (dispatched, and its subprocess spawned unless --dry-run) and every
\* remote request is skipped; no local request is ever skipped
C2_LocalNeverSkipped ==
    /\ \A p \in skipped : is_remote(Req(p[1], p[2]))
    /\ InLoop /\ up_to_date /\ any_local(CurSet) /\ any_remote(CurSet) =>
          \A r \in Reqs(si) : (r < ri \/ pc = "built") =>
             IF is_local(Req(si, r))
             THEN /\ <<si, r>> \in dispatched
                  /\ <<si, r>> \notin skipped
                  /\ ~dry_run => <<si, r>> \in spawned
             ELSE /\ <<si, r>> \in skipped
                  /\ <<si, r>> \notin dispatched

\* an up to date set of a remote and a local request, both passed
C2_Witness ==
    /\ pc = "built"
    /\ up_to_date
    /\ ~dry_run
    /\ any_local(CurSet)
    /\ any_remote(CurSet)
    /\ spawned # {}
    /\ skipped # {}

\* C3, as stated: the marker of a set is written in an invocation only if a
\* remote request of that set ran in it
C3_Original ==
    \A s \in marked : \E r \in Reqs(s) :
        is_remote(Req(s, r)) /\ <<s, r>> \in dispatched

\* C3, amended: the marker is written only for a set with a remote request and
\* an origin, once each of its requests was skipped as up to date or returned
\* from Install::install without an error
C3_MarkerOnlyIf ==
    \A s \in marked :
        /\ any_remote(installs[s])
        /\ installs[s].src # NoSrc
        /\ \A r \in Reqs(s) :
              \/ <<s, r>> \in skipped /\ is_remote(Req(s, r))
              \/ /\ <<s, r>> \in dispatched
                 /\ failedAt # <<s, r>>
                 /\ ~dry_run => <<s, r>> \in published

\* a marker written in a cycle that skipped a remote request
C3_Witness ==
    \E s \in marked : \E r \in Reqs(s) : <<s, r>> \in skipped

\* C4: a set with a remote request and an origin whose cycle ran to completion
\* has its marker written, after its requests, whether it was up to date or not
C4_MarkerWritten ==
    /\ \A s \in 1..Len(installs) :
          /\ s < si \/ (Ended /\ result = "Ok")
          /\ s \notin skippedSets
          /\ any_remote(installs[s])
          /\ installs[s].src # NoSrc
          => s \in marked /\ built[installs[s].bin] = now
    /\ pc \in {"install", "wait", "publish", "built"} => si \notin marked

\* the marker written after a cycle that ran only the local request
C4_Witness ==
    /\ pc = "set"
    /\ si = 2
    /\ up_to_date
    /\ ~dry_run
    /\ 1 \in marked
    /\ published # {}
    /\ skipped # {}

\* C5: a set one of whose requests failed does not get its marker written in
\* that invocation, and no marker is written while requests are left to run
C5_NoMarkerOnFailure ==
    /\ failedAt # <<>> => failedAt[1] \notin marked
    /\ \A s \in marked : \A r \in Reqs(s) : <<s, r>> \in dispatched \cup skipped

\* the second request of a set failed after the first one was published
C5_Witness ==
    /\ pc = "exited"
    /\ failedAt = <<1, 2>>
    /\ <<1, 1>> \in published
    /\ any_remote(installs[1])
    /\ installs[1].src # NoSrc

\* C6: a set that is up to date and has no local request is skipped whole: no
\* request of it is dispatched, spawned or published, its marker is not
\* written, and the loop goes on to the next set
C6_SkipWholeSet ==
    /\ \A s \in skippedSets :
          /\ Untouched(s)
          /\ s \notin marked
          /\ s < si
          /\ ~any_local(installs[s])
    /\ InLoop => ~(up_to_date /\ ~any_local(CurSet))

\* the first set was skipped whole and the second one is running
C6_Witness ==
    /\ pc = "wait"
    /\ si = 2
    /\ 1 \in skippedSets

\* C7, as stated: after an invocation that succeeded (no dry run), with the
\* origin's mtime readable and not modified since, no remote request of the
\* set is run
C7_Original ==
    \A p \in dispatched :
        ~(is_remote(Req(p[1], p[2])) /\ installs[p[1]].src \in steady)

\* C7, amended: the same, for an origin whose mtime is readable and was
\* strictly before the clock when the first invocation started
C7_Idempotent ==
    \A p \in dispatched :
        ~(is_remote(Req(p[1], p[2])) /\ installs[p[1]].src \in settled)

\* a remote request skipped by the second invocation
C7_Witness ==
    \E p \in skipped : installs[p[1]].src \in settled

\* C8, as stated: after a request failed, the requests and the sets after it
\* are still attempted
C8_Original ==
    pc = "exited" /\ failedAt # <<>> =>
        \A q \in Positions : After(failedAt, q) => q \in dispatched \cup skipped

\* C8, amended: a request that fails ends the invocation: run_from_strs
\* returns the error, and no request or set after it is attempted
C8_FailureAborts ==
    failedAt # <<>> =>
        /\ Ended
        /\ result = "Err"
        /\ error # NoError
        /\ \A q \in Positions :
              After(failedAt, q) => q \notin dispatched \cup skipped \cup spawned
        /\ \A s \in 1..Len(installs) : s >= failedAt[1] => s \notin marked

\* the first of two requests of a set failed
C8_Witness ==
    /\ pc = "exited"
    /\ failedAt = <<1, 1>>
    /\ Len(installs[1].installs) = 2

\* C9: the exit code is 0 exactly when no error occurred; after the first
\* error no later set is touched; what was published and marked before stays
C9_ExitCode ==
    /\ pc = "exited" => (exitCode = 0 <=> error = NoError)
    /\ pc # "exited" => exitCode = -1
    /\ error # NoError =>
          /\ Ended
          /\ \A s \in 1..Len(installs) : s > si => Untouched(s) /\ s \notin marked
    /\ \A p \in published : <<installs[p[1]].bin, Req(p[1], p[2]).name>> \in dstBins
    /\ \A s \in marked : built[installs[s].bin] = now

\* the second set failed after the first one was published and marked
C9_Witness ==
    /\ pc = "exited"
    /\ exitCode = 1
    /\ si = 2
    /\ <<1, 1>> \in published
    /\ 1 \in marked
    /\ <<installs[1].bin, Req(1, 1).name>> \in dstBins

\* C10: a subprocess that exits non-zero or dies of a signal makes the install
\* fail with the exit code (or `signal`) in the message, and nothing of that
\* request is published (once the thread is joined and the status matched)
C10_ExitFailure ==
    status \notin {NoStatus, 0} /\ pc # "join" =>
        /\ result = "Err"
        /\ failedAt = <<si, ri>>
        /\ failedAt \notin published
        /\ IF status = NoCode
           THEN error.text = "{} failed (signal)"
           ELSE error.text = "{} failed (exit code {})" /\ error.code = status

\* the subprocess exited with 101
C10_Witness ==
    /\ pc = "exited"
    /\ status = 101
    /\ exitCode = 1

\* C11: in a dry run no subprocess is spawned and nothing is published, every
\* request that is dispatched has its `Skipped` status line printed, and none of
\* them reports a failure
C11_DryRun ==
    dry_run =>
        /\ spawned = {}
        /\ running = {}
        /\ threads = {}
        /\ published = {}
        /\ pc \notin {"wait", "join", "publish"}
        /\ announced = dispatched
        /\ failedAt = <<>>
        /\ \A p \in dispatched : p # <<si, ri>>

\* a dry run over two requests that returned Ok
C11_Witness ==
    /\ dry_run
    /\ pc = "exited"
    /\ result = "Ok"
    /\ Cardinality(dispatched) = 2
    /\ announced = dispatched

\* C17: the destination directory of every install set (set.bin) exists before
\* any subprocess of that set is spawned, for the explicit set and for the sets
\* of manifest discovery
C17_Original ==
    \A p \in spawned : installs[p[1]].bin \in dirs

\* C18: a configuration error is returned before any side effect: the
\* destination directory is not created, nothing is dispatched, spawned,
\* published or marked, and the filesystem is left as it was
C18_ConfigErrorFirst ==
    /\ [](error \in ConfigErrors =>
            /\ Ended
            /\ result = "Err"
            /\ ~created
            /\ dispatched = {}
            /\ spawned = {}
            /\ published = {}
            /\ marked = {}
            /\ running = {}
            /\ threads = {})
    /\ [][error' \in ConfigErrors => UNCHANGED fsVars]_vars

\* an invocation without crates, after one that published a binary
C18_Witness ==
    /\ pc = "exited"
    /\ error.text = "no crates specified"
    /\ exitCode = 1
    /\ runs = 2
    /\ dstBins # {}
    /\ ~created

\* C19: a filter thread is started only by a successful spawn, is alive while
\* the subprocess is waited for, is joined before the install returns, and is
\* never one of two
C19_FilterThread ==
    /\ threads \subseteq spawned
    /\ Cardinality(threads) <= 1
    /\ pc \in {"wait", "join"} => threads = {<<si, ri>>}
    /\ pc \notin {"wait", "join"} => threads = {}
    /\ pc = "join" /\ status # WaitErr => <<si, ri>> \notin running
    /\ error.text = "failed to spawn {}: {}" =>
          /\ failedAt \notin spawned
          /\ threads = {}

\* the thread of the second request, waited for and about to be joined
C19_Witness ==
    /\ pc = "join"
    /\ status = 0
    /\ threads = {<<1, 2>>}
    /\ running = {}
    /\ <<1, 1>> \in published

\* C20: a request is started only after every request started before it, all
\* of them earlier in declaration order, has completed (subprocess waited for,
\* thread joined, binary published); no two subprocesses run at once
C20_Sequential ==
    /\ [](Cardinality(running) <= 1)
    /\ [][\A q \in dispatched' \ dispatched : \A p \in dispatched :
            /\ After(p, q)
            /\ p \notin running \cup threads
            /\ p \in spawned => p \in published]_vars

\* the subprocess of the second set runs, the binary of the first is published
C20_Witness ==
    /\ pc = "wait"
    /\ running = {<<2, 1>>}
    /\ <<1, 1>> \in published
    /\ <<1, 1>> \notin threads

\* the flags of a request as they were given, its own before the global ones
FpRaw(r) == r.flags \o r.options

Count(x, s) == Cardinality({i \in 1..Len(s) : s[i] = x})

\* the same (flag, args) pairs, each as often, in whatever order
SameFlags(r1, r2) == \A x \in FpFlags : Count(x, FpRaw(r1)) = Count(x, FpRaw(r2))

FlagSet(r) == {FpRaw(r)[i] : i \in 1..Len(FpRaw(r))}

\* C12: two requests of the same name whose (flag, args) pairs are the same, in
\* any two input orders, have the same sixteen digit fingerprint and the same
\* cache directory
C12_OrderInsensitive ==
    fp.pc = "hashed" /\ fp.a.name = fp.b.name /\ SameFlags(fp.a, fp.b) =>
        /\ fp.ha.hash = fp.hb.hash
        /\ fp.ha.krate_build_dir = fp.hb.krate_build_dir
        /\ Len(fp.ha.hash) = 16

\* the same two flags in the two orders, hashed
C12_Witness ==
    /\ fp.pc = "hashed"
    /\ fp.a.name = fp.b.name
    /\ SameFlags(fp.a, fp.b)
    /\ Len(FpRaw(fp.a)) = 2
    /\ FpRaw(fp.a)[1] # FpRaw(fp.a)[2]
    /\ FpRaw(fp.b) = <<FpRaw(fp.a)[2], FpRaw(fp.a)[1]>>
    /\ fp.ha = fp.hb

\* C13: a request in which a flag occurs more than once has the flag list, the
\* fingerprint and the cache directory of the request in which it occurs once
C13_Original ==
    fp.pc = "hashed" /\ fp.a.name = fp.b.name /\ FlagSet(fp.a) = FlagSet(fp.b) =>
        /\ fp.ia.flags = fp.ib.flags
        /\ fp.ha.hash = fp.hb.hash
        /\ fp.ha.krate_build_dir = fp.hb.krate_build_dir

\* a line is suppressed: for some rule it starts with the plain or with the
\* colored prefix and ends with the suffix
Suppressed(line) ==
    \E k \in 1..Len(IGNORE) :
        /\ StartsWith(line, IGNORE[k].pre) \/ StartsWith(line, IGNORE[k].prec)
        /\ EndsWith(line, IGNORE[k].post)

Kept(lines) == SelectSeq(lines, LAMBDA l : ~Suppressed(l))

\* the lines read so far that ended with a line separator
ReadLines ==
    SubSeq(flt.lines, 1,
           IF ~flt.terminated /\ flt.pos = Len(flt.lines) THEN flt.pos - 1 ELSE flt.pos)

\* C14: what the filter has forwarded is, in order, the lines read that are not
\* suppressed, none added and none dropped; at the end of the stream every
\* line was read
C14_ForwardsKept ==
    flt.pc # "off" =>
        /\ SubSeq(flt.out, 1, Len(Kept(ReadLines))) = Kept(ReadLines)
        /\ Len(flt.out) <= Len(Kept(ReadLines)) + (Len(flt.lines) - Len(ReadLines))
        /\ Len(ReadLines) = flt.pos => flt.out = Kept(ReadLines)
        /\ flt.pc = "ok" => flt.pos = Len(flt.lines)

\* a line with the colored prefix and the suffix is dropped, a line with the
\* plain prefix of the same rule and another ending is forwarded
C14_Witness ==
    /\ flt.pc = "ok"
    /\ flt.terminated
    /\ Len(flt.lines) = 2
    /\ flt.lines[1] = IGNORE[1].prec \o IGNORE[1].post
    /\ flt.lines[2] = IGNORE[1].pre \o <<"text">>
    /\ flt.out = <<flt.lines[2]>>

\* C15: the last fragment of a stream that closed without a line separator is
\* forwarded, also when it starts with a prefix and ends with the suffix of a rule
C15_Original ==
    flt.pc = "ok" /\ ~flt.terminated =>
        flt.out = Append(Kept(ReadLines), flt.lines[Len(flt.lines)])

\* the regular files of the cache directory the loop has gone past
Passed == {k \in 1..Len(pub.is_file) : pub.is_file[k] /\ k < pub.i}

\* C16: per regular file the destination entry is removed first, then the link
\* is tried, and the copy only after the link failed; a copy failure is fatal;
\* after a publish that succeeded every destination name resolves to the
\* content of the new artifact
C16_Original ==
    pub.pc # "off" =>
        /\ pub.ops \in {<<>>, <<"remove">>, <<"remove", "symlink">>,
                        <<"remove", "symlink", "copy">>}
        /\ pub.error.text = "error replacing {} with {}: {}" => pub.pc = "failed"
        /\ pub.pc = "done" =>
              \A k \in Passed : Resolve(pub.dest[k], pub.cache[k]) = Artifact(k)

\* the two requests have got their commands
Commanded == fp.pc = "commands"

\* C21: the cache directory of a request is <crates_cache_dir>/<fingerprint>; the
\* fingerprint is the hash of the subcommand, the sorted flags with their
\* arguments and the name, and of nothing else: two requests with the same flags
\* and name have one fingerprint whatever their destination and dry-run mode
\* are, and with one crates_cache_dir one cache directory, which is the --root
\* cargo is spawned with; requests with different fingerprints have different
\* cache directories
C21_CacheDirectory ==
    Commanded =>
        /\ fp.cmda.hash = Fingerprint(fp.a).hash
        /\ fp.cmdb.hash = Fingerprint(fp.b).hash
        /\ fp.cmda.krate_build_dir = Append(crates_cache_dir(fp.ca), fp.cmda.hash)
        /\ fp.cmdb.krate_build_dir = Append(crates_cache_dir(fp.cb), fp.cmdb.hash)
        /\ fp.a = fp.b => fp.cmda.hash = fp.cmdb.hash
        /\ fp.a = fp.b /\ fp.ca.home = fp.cb.home =>
              fp.cmda.krate_build_dir = fp.cmdb.krate_build_dir
        /\ fp.cmda.hash # fp.cmdb.hash =>
              fp.cmda.krate_build_dir # fp.cmdb.krate_build_dir
        /\ \A i \in 1..Len(fp.roots) :
              fp.roots[i] \in {fp.cmda.krate_build_dir, fp.cmdb.krate_build_dir}

C21_Witness ==
    /\ Commanded
    /\ fp.a = fp.b
    /\ Len(fp.a.flags) = MaxFlags + 1
    /\ fp.ca.dst_bin # fp.cb.dst_bin
    /\ ~fp.ca.dry_run /\ fp.cb.dry_run
    /\ fp.ca.home = fp.cb.home
    /\ fp.roots = <<fp.cmdb.krate_build_dir>>
    /\ fp.skips = 1

\* C22: no lock protects a cache entry: an invocation whose subprocess exited
\* with 0 always can enumerate <cache>/<fingerprint>/bin and publish from it,
\* whatever the other invocation and its subprocess are doing; there is an
\* interleaving in which it does both while the other invocation's subprocess
\* is writing into that same directory (C22_Witness)
C22_NoLock ==
    par.pc = "on" =>
        \A i \in Invocations :
            /\ par.at[i] = "publish" => ENABLED ParReadDir(i)
            /\ par.at[i] = "entries" => ENABLED ParPublish(i)
            /\ par.raced[i] => par.at[i] = "ok" /\ par.hash[1] = par.hash[2]

\* invocation 2 has enumerated and published while the subprocess of invocation
\* 1 was, and still is, writing into the same directory; the two subprocesses
\* never wrote at the same time
C22_Witness ==
    /\ par.pc = "on"
    /\ par.hash[1] = par.hash[2]
    /\ par.at[2] = "ok"
    /\ par.raced[2]
    /\ par.got[2] = "partial"
    /\ par.cargo[1] = "writing"
    /\ ~par.overlap

\* C23: an invocation with --dry-run changes no filesystem state: no directory
\* is created, no binary is linked or copied, and no .built marker is created
\* or touched
C23_Original ==
    [][dry_run /\ pc \notin {"idle", "exited"} =>
          UNCHANGED <<dirs, built, dstBins>>]_vars

====
